---- MODULE Spec2Model ----
(***************************************************************************)
(* Model of DashBoard.py: a Streamlit script whose main() loads a CSV      *)
(* through a process-wide cache, reads three sidebar filter widgets,       *)
(* filters the frame, and renders four KPI metrics, eight grouped charts   *)
(* and an optional raw table. One execution of main() is one "pass"; the   *)
(* session state of the widgets and the load cache survive across passes.  *)
(*                                                                         *)
(* Abstractions: numeric columns hold integers and a mean is the exact     *)
(* rational sum/count (pandas computes it in float64); every cell of a     *)
(* loaded row holds a value (no missing cells).                            *)
(***************************************************************************)
EXTENDS Integers, Sequences, FiniteSets, TLC

\* ------------------------------------------------------------------ bounds
MaxRows == 2       \* rows of the source file
MaxPasses == 2     \* executions of main() in one session
MaxChanges == 1    \* user interactions with a widget in one session
MaxFileEdits == 1  \* changes made to the file on disk during the session

\* ------------------------------------------------------------- the dataset
\* The thirteen columns main() reads.
Required ==
    {"Year", "Job_Title", "Industry", "Salary_USD", "Growth_Rate", "Job_Openings",
     "Gender_Diversity_Index", "Experience_Level", "AI_Adoption_Level",
     "Skill_Complexity", "Location", "Remote_Work", "Company_Size"}

Row(y, jt, ind, sal, gr, jo, gdi, ex, ai, sk, loc, rw, cs) ==
    [Year |-> y, Job_Title |-> jt, Industry |-> ind, Salary_USD |-> sal,
     Growth_Rate |-> gr, Job_Openings |-> jo, Gender_Diversity_Index |-> gdi,
     Experience_Level |-> ex, AI_Adoption_Level |-> ai, Skill_Complexity |-> sk,
     Location |-> loc, Remote_Work |-> rw, Company_Size |-> cs]

\* The rows a source file is made of (any sequence of them, repeats allowed).
RowPool ==
    { Row(2020, "A", "X", 100, 5, 5, 40, "Entry", "High", "Low", "NY", "Yes", "Small"),
      Row(2021, "B", "Y", 200, 8, 3, 60, "Senior", "Low", "High", "SF", "No", "Large"),
      Row(2022, "A", "Y", 301, 4, 0, 55, "Entry", "High", "High", "NY", "No", "Small") }

\* Header variants of the source file: complete, or one required column absent.
Headers == {Required} \cup {Required \ {c} : c \in Required}

\* All strings of the pool in lexicographic order (Python's str ordering).
Lexicon ==
    <<"A", "B", "Entry", "High", "Large", "Low", "NY", "No", "SF", "Senior",
      "Small", "X", "Y", "Yes">>

RECURSIVE SeqsUpTo(_, _)
SeqsUpTo(S, n) ==
    IF n = 0 THEN {<<>>}
    ELSE LET shorter == SeqsUpTo(S, n - 1)
         IN shorter \cup {Append(s, x) : s \in {t \in shorter : Len(t) = n - 1}, x \in S}

\* ------------------------------------------------------------------ frames
\* A DataFrame: its columns, its index labels and its rows, position by position.
NoFrame == [columns |-> {}, index |-> <<>>, data |-> <<>>]

Restrict(row, cols) == [c \in cols |-> row[c]]

\* pd.read_csv: a RangeIndex over the rows, each row cut to the header's columns.
read_csv(f) ==
    [columns |-> f.columns,
     index |-> [i \in 1..Len(f.data) |-> i - 1],
     data |-> [i \in 1..Len(f.data) |-> Restrict(f.data[i], f.columns)]]

NRows(frame) == Len(frame.data)

\* Series.unique(): the distinct values of a column.
Unique(frame, c) == {frame.data[i][c] : i \in 1..NRows(frame)}

\* Series.min() / Series.max() of a non-empty integer column.
ColMin(frame, c) == CHOOSE v \in Unique(frame, c) : \A w \in Unique(frame, c) : v <= w
ColMax(frame, c) == CHOOSE v \in Unique(frame, c) : \A w \in Unique(frame, c) : v >= w

\* Mutant of Take: also drops rows equal to an earlier kept row (drop_duplicates).
TakeDistinct(frame, mask) ==
    LET pos == SelectSeq([i \in 1..NRows(frame) |-> i],
                         LAMBDA i : mask[i] /\ \A h \in 1..(i - 1) :
                                                 ~(mask[h] /\ frame.data[h] = frame.data[i]))
    IN [columns |-> frame.columns,
        index |-> [j \in 1..Len(pos) |-> frame.index[pos[j]]],
        data |-> [j \in 1..Len(pos) |-> frame.data[pos[j]]]]

\* frame[mask]: the rows whose mask is TRUE, order and index labels kept.
Take(frame, mask) ==
    LET pos == SelectSeq([i \in 1..NRows(frame) |-> i], LAMBDA i : mask[i])
    IN [columns |-> frame.columns,
        index |-> [j \in 1..Len(pos) |-> frame.index[pos[j]]],
        data |-> [j \in 1..Len(pos) |-> frame.data[pos[j]]]]

\* ----------------------------------------------------------------- numbers
RECURSIVE GCD(_, _)
GCD(a, b) == IF b = 0 THEN a ELSE GCD(b, a % b)

Abs(n) == IF n < 0 THEN -n ELSE n

\* float('nan'), and the exact value n/d in lowest terms.
NaN == [nan |-> TRUE, num |-> 0, den |-> 1]
Ratio(n, d) ==
    LET g == GCD(Abs(n), d)
    IN [nan |-> FALSE, num |-> n \div g, den |-> d \div g]

RECURSIVE Sum(_)
Sum(s) == IF s = <<>> THEN 0 ELSE Head(s) + Sum(Tail(s))

Column(frame, c) == [i \in 1..NRows(frame) |-> frame.data[i][c]]

\* Mutant of SeriesMean: an empty series averages to 0.
SeriesMeanZero(s) == IF Len(s) = 0 THEN Ratio(0, 1) ELSE Ratio(Sum(s), Len(s))

\* Series.mean(): NaN for an empty series, else sum / count.
SeriesMean(s) == IF Len(s) = 0 THEN NaN ELSE Ratio(Sum(s), Len(s))

\* Series.sum(): 0 for an empty series.
SeriesSum(s) == Sum(s)

\* ------------------------------------------------------------- formatting
RECURSIVE Pow10(_)
Pow10(d) == IF d = 0 THEN 1 ELSE 10 * Pow10(d - 1)

\* n/d rounded to the nearest integer, a tie going to the even one.
RoundHalfEven(n, d) ==
    LET q == n \div d
        r == n % d
    IN IF 2 * r < d THEN q
       ELSE IF 2 * r > d THEN q + 1
       ELSE IF q % 2 = 0 THEN q ELSE q + 1

\* format(x, ",.<d>f") / format(x, ".<d>f"): the text "nan" for NaN, else x
\* rounded to d decimals, written as the integer x * 10^d with d decimals.
FormatFixed(x, d) ==
    IF x.nan THEN [text |-> "nan", units |-> 0, decimals |-> d]
    ELSE [text |-> "number", units |-> RoundHalfEven(x.num * Pow10(d), x.den),
          decimals |-> d]

\* format(n, ","): an integer written in full.
FormatInt(n) == [text |-> "number", units |-> n, decimals |-> 0]

\* ---------------------------------------------------------------- grouping
\* Sort order of a cell: Year sorts as an integer, the other key columns as text.
StrOrd(s) == CHOOSE i \in 1..Len(Lexicon) : Lexicon[i] = s
Ord(c, v) == IF c = "Year" THEN v ELSE StrOrd(v)

KeyOf(row, keys) == [j \in 1..Len(keys) |-> row[keys[j]]]

\* Lexicographic order of two keys of the same grouping columns.
KeyLess(a, b, keys) ==
    \E j \in 1..Len(keys) :
        /\ \A h \in 1..(j - 1) : a[h] = b[h]
        /\ Ord(keys[j], a[j]) < Ord(keys[j], b[j])

RECURSIVE SortKeys(_, _)
SortKeys(S, keys) ==
    IF S = {} THEN <<>>
    ELSE LET least == CHOOSE k \in S : \A o \in S \ {k} : KeyLess(k, o, keys)
         IN <<least>> \o SortKeys(S \ {least}, keys)

\* The values of column c in the rows of frame carrying key k.
GroupValues(frame, keys, k, c) ==
    LET pos == SelectSeq([i \in 1..NRows(frame) |-> i],
                         LAMBDA i : KeyOf(frame.data[i], keys) = k)
    IN [j \in 1..Len(pos) |-> frame.data[pos[j]][c]]

\* Mutant of GroupKeys: the keys in order of first appearance (sort=False).
RECURSIVE Appearance(_, _, _)
Appearance(frame, keys, i) ==
    IF i = 0 THEN <<>>
    ELSE LET earlier == Appearance(frame, keys, i - 1)
             k == KeyOf(frame.data[i], keys)
         IN IF k \in {earlier[j] : j \in 1..Len(earlier)} THEN earlier
            ELSE Append(earlier, k)

GroupKeysUnsorted(frame, keys) == Appearance(frame, keys, NRows(frame))

\* DataFrame.groupby(keys) with the defaults (sort=True): the keys that occur,
\* in sorted order.
GroupKeys(frame, keys) ==
    SortKeys({KeyOf(frame.data[i], keys) : i \in 1..NRows(frame)}, keys)

\* groupby(keys)[c].mean().reset_index()
GroupMean(frame, keys, c) ==
    LET ks == GroupKeys(frame, keys)
    IN [j \in 1..Len(ks) |->
          [key |-> ks[j], value |-> SeriesMean(GroupValues(frame, keys, ks[j], c))]]

\* groupby(keys)[c].sum().reset_index()
GroupSum(frame, keys, c) ==
    LET ks == GroupKeys(frame, keys)
    IN [j \in 1..Len(ks) |->
          [key |-> ks[j], value |-> SeriesSum(GroupValues(frame, keys, ks[j], c))]]

\* Mutant of GroupSize: the distinct values of the group's first key column
\* (nunique) instead of its rows.
GroupSizeDistinct(frame, keys) ==
    LET ks == SortKeys({KeyOf(frame.data[i], keys) : i \in 1..NRows(frame)}, keys)
    IN [j \in 1..Len(ks) |-> [key |-> ks[j], value |-> 1]]

\* groupby(keys).size().reset_index(name='count')
GroupSize(frame, keys) ==
    LET ks == GroupKeys(frame, keys)
    IN [j \in 1..Len(ks) |->
          [key |-> ks[j], value |-> Len(GroupValues(frame, keys, ks[j], keys[1]))]]

\* ------------------------------------------------------------------ filter
\* Mutant of between: the upper end left out.
betweenOpen(frame, c, lo, hi) ==
    [i \in 1..NRows(frame) |-> lo <= frame.data[i][c] /\ frame.data[i][c] < hi]

\* Series.between(lo, hi): inclusive on both sides.
between(frame, c, lo, hi) ==
    [i \in 1..NRows(frame) |-> lo <= frame.data[i][c] /\ frame.data[i][c] <= hi]

\* Series.isin(values)
isin(frame, c, values) == [i \in 1..NRows(frame) |-> frame.data[i][c] \in values]

\* Mutant of FilterMask: the job-title condition negated (& ~isin).
FilterMaskJobsNegated(frame, yr, jobs, inds) ==
    LET y == between(frame, "Year", yr[1], yr[2])
        j == isin(frame, "Job_Title", jobs)
        n == isin(frame, "Industry", inds)
    IN [i \in 1..NRows(frame) |-> y[i] /\ ~j[i] /\ n[i]]

\* The mask of main(): the three conditions joined with &.
FilterMask(frame, yr, jobs, inds) ==
    LET y == between(frame, "Year", yr[1], yr[2])
        j == isin(frame, "Job_Title", jobs)
        n == isin(frame, "Industry", inds)
    IN [i \in 1..NRows(frame) |-> y[i] /\ j[i] /\ n[i]]

\* ------------------------------------------------------------------- state
VARIABLES
    file,         \* AIDataset.csv on disk: readable?, header columns, rows
    cache,        \* st.cache_data store of load_data(): <<>> or <<frame>>
    reads,        \* completed pd.read_csv calls in this process
    widgets,      \* widget values in the browser (what the user last set)
    rerun,        \* a run of the script has been requested
    session,      \* widget values handed to the running pass (taken at its start)
    pc,           \* position of the running pass in main()
    df,           \* main(): df
    year_range,   \* main(): year_range, <<>> until the slider call returns
    job_cats,     \* main(): job_cats
    industries,   \* main(): industries
    filtered_df,  \* main(): filtered_df
    kpi,          \* the st.metric calls made so far in this pass
    tables,       \* the grouped frames charted so far in this pass
    raw_view,     \* <<>> or <<frame>>: what st.write was given in this pass
    screen,       \* elements this pass has put on the page, in order
    error,        \* exception that ended the pass, "none" otherwise
    passes,       \* passes started
    changes,      \* user interactions so far
    edits,        \* file changes so far
    history       \* <<>> or <<record>>: the first completed pass, inputs and results

vars ==
    <<file, cache, reads, widgets, rerun, session, pc, df, year_range, job_cats,
      industries, filtered_df, kpi, tables, raw_view, screen, error, passes,
      changes, edits, history>>

locals == <<df, year_range, job_cats, industries, filtered_df, kpi, tables, raw_view>>
env == <<file, edits>>
user == <<widgets, rerun, changes>>

\* No widget registered yet: each value is <<>> until its widget is first drawn.
NoWidgets == [year |-> <<>>, jobs |-> <<>>, inds |-> <<>>, raw |-> <<>>]

\* Everything but the file on disk: a fresh process, no pass run yet.
Fresh ==
    /\ cache = <<>>
    /\ reads = 0
    /\ widgets = NoWidgets
    /\ rerun = TRUE
    /\ session = NoWidgets
    /\ pc = "idle"
    /\ df = NoFrame
    /\ year_range = <<>>
    /\ job_cats = {}
    /\ industries = {}
    /\ filtered_df = NoFrame
    /\ kpi = <<>>
    /\ tables = <<>>
    /\ raw_view = <<>>
    /\ screen = <<>>
    /\ error = "none"
    /\ passes = 0
    /\ changes = 0
    /\ edits = 0
    /\ history = <<>>

\* The source file carries all thirteen columns.
Init ==
    /\ file \in [readable : BOOLEAN, columns : {Required},
                 data : SeqsUpTo(RowPool, MaxRows)]
    /\ Fresh

\* The source file may lack one of the thirteen columns.
InitAnyHeader ==
    /\ file \in [readable : BOOLEAN, columns : Headers, data : SeqsUpTo(RowPool, MaxRows)]
    /\ Fresh

\* ------------------------------------------------------- the pass: main()
\* The script starts (again): title and rule are drawn, the widget values of the
\* browser become the values this run's widget calls return.
StartPass ==
    /\ pc \in {"idle", "done", "failed"}
    /\ rerun
    /\ passes < MaxPasses
    /\ passes' = passes + 1
    /\ rerun' = FALSE
    /\ session' = widgets
    /\ pc' = "load"
    /\ df' = NoFrame
    /\ year_range' = <<>>
    /\ job_cats' = {}
    /\ industries' = {}
    /\ filtered_df' = NoFrame
    /\ kpi' = <<>>
    /\ tables' = <<>>
    /\ raw_view' = <<>>
    /\ screen' = <<"title", "rule">>
    /\ error' = "none"
    /\ UNCHANGED <<file, cache, reads, widgets, changes, edits, history>>

\* Mutant of load_data: no cache lookup, the file is read on every call.
load_data_uncached ==
    IF file.readable THEN
        [raised |-> "none", value |-> read_csv(file), cache |-> <<read_csv(file)>>,
         reads |-> reads + 1]
    ELSE
        [raised |-> "FileNotFoundError", value |-> NoFrame, cache |-> cache,
         reads |-> reads]

\* load_data() under @st.cache_data: the stored frame if there is one, else
\* pd.read_csv, whose result is stored; a failed read raises and stores nothing.
load_data ==
    IF cache # <<>> THEN
        [raised |-> "none", value |-> cache[1], cache |-> cache, reads |-> reads]
    ELSE IF file.readable THEN
        [raised |-> "none", value |-> read_csv(file), cache |-> <<read_csv(file)>>,
         reads |-> reads + 1]
    ELSE
        [raised |-> "FileNotFoundError", value |-> NoFrame, cache |-> cache,
         reads |-> reads]

Load ==
    /\ pc = "load"
    /\ LET r == load_data
       IN /\ cache' = r.cache
          /\ reads' = r.reads
          /\ df' = r.value
          /\ error' = r.raised
          /\ pc' = IF r.raised = "none" THEN "sidebar" ELSE "failed"
    /\ UNCHANGED <<year_range, job_cats, industries, filtered_df, kpi, tables,
                   raw_view, screen, passes, session, history>>
    /\ UNCHANGED <<env, user>>

\* A widget call: the session's value if the widget is registered, else its default.
WidgetValue(registered, default) == IF registered = <<>> THEN default ELSE registered[1]

\* The sidebar of main(): header, year slider, two multiselects. Each reads its
\* column first; a column that is absent raises KeyError there, and int() of the
\* NaN minimum of an empty Year column raises ValueError.
Sidebar(frame, sess) ==
    LET none == [raised |-> "none", year |-> <<>>, jobs |-> {}, inds |-> {},
                 shown |-> <<"header">>]
    IN IF "Year" \notin frame.columns THEN [none EXCEPT !.raised = "KeyError"]
       ELSE IF NRows(frame) = 0 THEN [none EXCEPT !.raised = "ValueError"]
       ELSE LET yr == WidgetValue(sess.year,
                                  <<ColMin(frame, "Year"), ColMax(frame, "Year")>>)
                one == [none EXCEPT !.year = yr, !.shown = <<"header", "slider">>]
            IN IF "Job_Title" \notin frame.columns THEN [one EXCEPT !.raised = "KeyError"]
               ELSE LET two == [one EXCEPT
                                  !.jobs = WidgetValue(sess.jobs, Unique(frame, "Job_Title")),
                                  !.shown = <<"header", "slider", "jobs">>]
                    IN IF "Industry" \notin frame.columns
                       THEN [two EXCEPT !.raised = "KeyError"]
                       ELSE [two EXCEPT
                               !.inds = WidgetValue(sess.inds, Unique(frame, "Industry")),
                               !.shown = <<"header", "slider", "jobs", "industries">>]

\* A widget drawn for the first time is registered in the browser with the value
\* it returned; one the user already holds keeps the user's value.
Register(current, value, drawn) ==
    IF drawn /\ current = <<>> THEN <<value>> ELSE current

SidebarFilters ==
    /\ pc = "sidebar"
    /\ LET r == Sidebar(df, session)
           n == Len(r.shown)
       IN /\ year_range' = r.year
          /\ job_cats' = r.jobs
          /\ industries' = r.inds
          /\ screen' = screen \o r.shown
          /\ error' = r.raised
          /\ pc' = IF r.raised = "none" THEN "filter" ELSE "failed"
          /\ widgets' = [widgets EXCEPT
                           !.year = Register(@, r.year, n >= 2),
                           !.jobs = Register(@, r.jobs, n >= 3),
                           !.inds = Register(@, r.inds, n >= 4)]
    /\ UNCHANGED <<df, filtered_df, kpi, tables, raw_view, passes, session, history,
                   cache, reads, rerun, changes>>
    /\ UNCHANGED env

\* Mutant of BooleanIndex: the rows are dropped from df itself (inplace=True).
BooleanIndexInPlace(frame, mask) ==
    [source |-> Take(frame, mask), result |-> Take(frame, mask)]

\* df[mask]: a new frame; df itself is left as it was.
BooleanIndex(frame, mask) == [source |-> frame, result |-> Take(frame, mask)]

FilterData ==
    /\ pc = "filter"
    /\ LET r == BooleanIndex(df, FilterMask(df, year_range, job_cats, industries))
       IN /\ df' = r.source
          /\ filtered_df' = r.result
    /\ pc' = "kpis"
    /\ UNCHANGED <<year_range, job_cats, industries, kpi, tables, raw_view, screen,
                   error, passes, session, history, cache, reads>>
    /\ UNCHANGED <<env, user>>

\* ---------------------------------------------------------------- top KPIs
\* The four st.metric calls, in order: label, column, summary, decimals shown.
KpiSpecs ==
    << [label |-> "Average Salary", col |-> "Salary_USD", kind |-> "mean", decimals |-> 0],
       [label |-> "Average Growth Rate", col |-> "Growth_Rate", kind |-> "mean", decimals |-> 1],
       [label |-> "Total Job Openings", col |-> "Job_Openings", kind |-> "sum", decimals |-> 0],
       [label |-> "Avg Gender Diversity", col |-> "Gender_Diversity_Index", kind |-> "mean",
        decimals |-> 2] >>

\* One metric: the summary of the column and the text st.metric is given.
Metric(frame, m) ==
    LET v == IF m.kind = "mean" THEN SeriesMean(Column(frame, m.col))
             ELSE Ratio(SeriesSum(Column(frame, m.col)), 1)
    IN [label |-> m.label, value |-> v,
        shown |-> IF m.kind = "mean" THEN FormatFixed(v, m.decimals) ELSE FormatInt(v.num)]

\* How many of specs[from..to] run before one needs a column the frame lacks.
RECURSIVE Runnable(_, _, _, _)
Runnable(frame, needs, from, to) ==
    IF from > to \/ ~(needs[from] \subseteq frame.columns) THEN 0
    ELSE 1 + Runnable(frame, needs, from + 1, to)

KpiNeeds == [i \in 1..Len(KpiSpecs) |-> {KpiSpecs[i].col}]

\* The metrics drawn from the frame: all four, or those before the first KeyError.
Metrics(frame) ==
    LET n == Runnable(frame, KpiNeeds, 1, Len(KpiSpecs))
    IN [raised |-> IF n = Len(KpiSpecs) THEN "none" ELSE "KeyError",
        done |-> [i \in 1..n |-> Metric(frame, KpiSpecs[i])]]

TopKPIs ==
    /\ pc = "kpis"
    /\ LET r == Metrics(filtered_df)
       IN /\ kpi' = r.done
          /\ screen' = screen \o [i \in 1..Len(r.done) |-> "metric"]
          /\ error' = r.raised
          /\ pc' = IF r.raised = "none" THEN "salary" ELSE "failed"
    /\ UNCHANGED <<df, year_range, job_cats, industries, filtered_df, tables, raw_view,
                   passes, session, history, cache, reads>>
    /\ UNCHANGED <<env, user>>

\* ------------------------------------------------------------------ charts
\* The eight grouped frames, in the order main() charts them.
ChartSpecs ==
    << [title |-> "Salary Trends by Job Title", keys |-> <<"Year", "Job_Title">>,
        kind |-> "mean", col |-> "Salary_USD"],
       [title |-> "Average Salary by Experience Level",
        keys |-> <<"Experience_Level", "Job_Title">>, kind |-> "mean", col |-> "Salary_USD"],
       [title |-> "AI Adoption Levels by Industry",
        keys |-> <<"Industry", "AI_Adoption_Level">>, kind |-> "count", col |-> "Industry"],
       [title |-> "Skill Complexity by Job Title",
        keys |-> <<"Job_Title", "Skill_Complexity">>, kind |-> "count", col |-> "Job_Title"],
       [title |-> "Job Openings by Location", keys |-> <<"Location", "Job_Title">>,
        kind |-> "sum", col |-> "Job_Openings"],
       [title |-> "Remote Work Distribution by Job Title",
        keys |-> <<"Job_Title", "Remote_Work">>, kind |-> "count", col |-> "Job_Title"],
       [title |-> "Average Growth Rate by Industry", keys |-> <<"Industry">>,
        kind |-> "mean", col |-> "Growth_Rate"],
       [title |-> "Job Distribution by Company Size",
        keys |-> <<"Company_Size", "Job_Title">>, kind |-> "count", col |-> "Company_Size"] >>

Range(s) == {s[i] : i \in 1..Len(s)}

ChartNeeds == [i \in 1..Len(ChartSpecs) |-> Range(ChartSpecs[i].keys) \cup {ChartSpecs[i].col}]

\* The grouped frame of one chart.
Table(frame, c) ==
    CASE c.kind = "mean" -> GroupMean(frame, c.keys, c.col)
      [] c.kind = "sum" -> GroupSum(frame, c.keys, c.col)
      [] c.kind = "count" -> GroupSize(frame, c.keys)

\* Mutant of ChartInput: the growth chart groups df, not filtered_df.
ChartInputUnfiltered(i) == IF i = 7 THEN df ELSE filtered_df

\* The frame each chart of main() groups: filtered_df, for all eight.
ChartInput(i) == filtered_df

\* Charts from..to of one section: all of them, or those before the first KeyError.
Charts(from, to) ==
    LET n == Runnable(filtered_df, ChartNeeds, from, to)
    IN [raised |-> IF n = to - from + 1 THEN "none" ELSE "KeyError",
        done |-> [i \in 1..n |-> Table(ChartInput(from + i - 1), ChartSpecs[from + i - 1])]]

ChartSection(here, next, from, to) ==
    /\ pc = here
    /\ LET r == Charts(from, to)
       IN /\ tables' = tables \o r.done
          /\ screen' = screen \o <<"header">> \o [i \in 1..Len(r.done) |-> "chart"]
          /\ error' = r.raised
          /\ pc' = IF r.raised = "none" THEN next ELSE "failed"
    /\ UNCHANGED <<df, year_range, job_cats, industries, filtered_df, kpi, raw_view,
                   passes, session, history, cache, reads>>
    /\ UNCHANGED <<env, user>>

SalaryAnalysis == ChartSection("salary", "ai", 1, 2)
AIAdoptionAnalysis == ChartSection("ai", "market", 3, 4)
JobMarketAnalysis == ChartSection("market", "growth", 5, 6)
GrowthCompanyAnalysis == ChartSection("growth", "detail", 7, 8)

\* -------------------------------------------------------- detailed data view
\* What one completed pass was given and what it produced.
PassRecord(view) ==
    [dataset |-> df, filter |-> <<year_range, job_cats, industries>>,
     result |-> [filtered |-> filtered_df, kpi |-> kpi, tables |-> tables, raw |-> view]]

DetailedDataView ==
    /\ pc = "detail"
    /\ LET checked == WidgetValue(session.raw, FALSE)
       IN /\ raw_view' = IF checked THEN <<filtered_df>> ELSE <<>>
          /\ screen' = screen \o <<"header", "checkbox">>
                              \o (IF checked THEN <<"table">> ELSE <<>>)
          /\ widgets' = [widgets EXCEPT !.raw = Register(@, checked, TRUE)]
          /\ history' = IF history = <<>> THEN <<PassRecord(raw_view')>> ELSE history
    /\ pc' = "done"
    /\ UNCHANGED <<df, year_range, job_cats, industries, filtered_df, kpi, tables,
                   error, passes, session, cache, reads, rerun, changes>>
    /\ UNCHANGED env

\* -------------------------------------------------------------------- user
\* The user acts on a widget that has been drawn; the browser keeps the new value
\* and asks for a run of the script.
Interact ==
    /\ changes < MaxChanges
    /\ changes' = changes + 1
    /\ rerun' = TRUE

ChangeYearRange ==
    /\ widgets.year # <<>>
    /\ Interact
    /\ \E lo \in ColMin(cache[1], "Year")..ColMax(cache[1], "Year") :
         \E hi \in lo..ColMax(cache[1], "Year") :
            /\ <<lo, hi>> # widgets.year[1]
            /\ widgets' = [widgets EXCEPT !.year = << <<lo, hi>> >>]
    /\ UNCHANGED <<pc, error, passes, session, history, cache, reads, screen>>
    /\ UNCHANGED <<locals, env>>

ChangeJobCategories ==
    /\ widgets.jobs # <<>>
    /\ Interact
    /\ \E S \in SUBSET Unique(cache[1], "Job_Title") :
            /\ S # widgets.jobs[1]
            /\ widgets' = [widgets EXCEPT !.jobs = <<S>>]
    /\ UNCHANGED <<pc, error, passes, session, history, cache, reads, screen>>
    /\ UNCHANGED <<locals, env>>

ChangeIndustries ==
    /\ widgets.inds # <<>>
    /\ Interact
    /\ \E S \in SUBSET Unique(cache[1], "Industry") :
            /\ S # widgets.inds[1]
            /\ widgets' = [widgets EXCEPT !.inds = <<S>>]
    /\ UNCHANGED <<pc, error, passes, session, history, cache, reads, screen>>
    /\ UNCHANGED <<locals, env>>

ToggleShowRawData ==
    /\ widgets.raw # <<>>
    /\ Interact
    /\ widgets' = [widgets EXCEPT !.raw = <<~widgets.raw[1]>>]
    /\ UNCHANGED <<pc, error, passes, session, history, cache, reads, screen>>
    /\ UNCHANGED <<locals, env>>

\* "Rerun" from the app menu: the script runs again with the widgets as they are.
RerunRequest ==
    /\ pc \in {"done", "failed"}
    /\ ~rerun
    /\ Interact
    /\ UNCHANGED <<widgets, pc, error, passes, session, history, cache, reads, screen>>
    /\ UNCHANGED <<locals, env>>

\* ------------------------------------------------------------- environment
\* The file on disk changes behind the running process.
EditFile ==
    /\ edits < MaxFileEdits
    /\ edits' = edits + 1

RemoveFile ==
    /\ file.readable
    /\ EditFile
    /\ file' = [file EXCEPT !.readable = FALSE]
    /\ UNCHANGED <<pc, error, passes, session, history, cache, reads, screen>>
    /\ UNCHANGED <<locals, user>>

RestoreFile ==
    /\ ~file.readable
    /\ EditFile
    /\ file' = [file EXCEPT !.readable = TRUE]
    /\ UNCHANGED <<pc, error, passes, session, history, cache, reads, screen>>
    /\ UNCHANGED <<locals, user>>

AppendRow ==
    /\ file.readable
    /\ Len(file.data) < MaxRows
    /\ EditFile
    /\ \E r \in RowPool : file' = [file EXCEPT !.data = Append(@, r)]
    /\ UNCHANGED <<pc, error, passes, session, history, cache, reads, screen>>
    /\ UNCHANGED <<locals, user>>

\* ----------------------------------------------------------- specification
Next ==
    \/ StartPass
    \/ Load
    \/ SidebarFilters
    \/ FilterData
    \/ TopKPIs
    \/ SalaryAnalysis
    \/ AIAdoptionAnalysis
    \/ JobMarketAnalysis
    \/ GrowthCompanyAnalysis
    \/ DetailedDataView
    \/ ChangeYearRange
    \/ ChangeJobCategories
    \/ ChangeIndustries
    \/ ToggleShowRawData
    \/ RerunRequest
    \/ RemoveFile
    \/ RestoreFile
    \/ AppendRow

Spec == Init /\ [][Next]_vars

\* The same program started on a file whose header may be incomplete.
SpecAnyHeader == InitAnyHeader /\ [][Next]_vars

\* ================================================================== claims
\* Positions of a pass.
PostSidebar == {"filter", "kpis", "salary", "ai", "market", "growth", "detail", "done"}
PostFilter == PostSidebar \ {"filter"}
Loaded == pc \in PostSidebar \cup {"sidebar"} \/ (pc = "failed" /\ df # NoFrame)

\* The rows of a frame carrying key k, and the total of a column over some rows.
Positions(frame, keys, k) == {p \in 1..NRows(frame) : KeyOf(frame.data[p], keys) = k}

RECURSIVE Total(_, _, _)
Total(frame, P, c) ==
    IF P = {} THEN 0
    ELSE LET p == CHOOSE x \in P : TRUE
         IN frame.data[p][c] + Total(frame, P \ {p}, c)

Labels(frame) == Range(frame.index)

\* The three conditions of the filter on one row.
Matches(row, yr, jobs, inds) ==
    /\ yr[1] <= row.Year
    /\ row.Year <= yr[2]
    /\ row.Job_Title \in jobs
    /\ row.Industry \in inds

DefaultYears == <<ColMin(df, "Year"), ColMax(df, "Year")>>

\* C1: once the filter has run, filtered_df holds exactly the rows of df whose
\* Year lies in [year_min, year_max] (both ends included), whose Job_Title is
\* selected and whose Industry is selected: a row is kept iff it meets all three,
\* and every kept row is a row of df.
C1_FilterExact ==
    pc \in PostFilter =>
        /\ \A i \in 1..NRows(df) :
              (df.index[i] \in Labels(filtered_df))
                 <=> Matches(df.data[i], year_range, job_cats, industries)
        /\ \A j \in 1..NRows(filtered_df) :
              \E i \in 1..NRows(df) :
                 df.index[i] = filtered_df.index[j] /\ df.data[i] = filtered_df.data[j]

\* C1 witness: a finished pass that kept a row whose Year equals the upper end of
\* the range and left another row out.
C1_Witness ==
    /\ pc = "done"
    /\ NRows(filtered_df) >= 1
    /\ NRows(filtered_df) < NRows(df)
    /\ \E j \in 1..NRows(filtered_df) : filtered_df.data[j].Year = year_range[2]

\* The value the claim gives the entry of key k in chart c's table.
Expected(c, k) ==
    LET P == Positions(filtered_df, c.keys, k)
    IN CASE c.kind = "count" -> Cardinality(P)
         [] c.kind = "sum" -> Total(filtered_df, P, c.col)
         [] c.kind = "mean" -> Ratio(Total(filtered_df, P, c.col), Cardinality(P))

TableTotal(t) == Sum([j \in 1..Len(t) |-> t[j].value])

\* C2: every grouped table charted so far has exactly one entry per grouping key
\* that occurs in filtered_df and none for other keys, each entry's value is the
\* mean / sum / count over exactly the rows carrying its key, the counts of a
\* count table add up to the number of filtered rows, and the Job_Openings sums
\* add up to the Total Job Openings KPI.
C2_GroupedTables ==
    \A i \in 1..Len(tables) :
        LET c == ChartSpecs[i]
            t == tables[i]
        IN /\ \A j \in 1..Len(t) :
                 /\ Positions(filtered_df, c.keys, t[j].key) # {}
                 /\ t[j].value = Expected(c, t[j].key)
           /\ \A p \in 1..NRows(filtered_df) :
                 Cardinality({j \in 1..Len(t) : t[j].key = KeyOf(filtered_df.data[p], c.keys)}) = 1
           /\ c.kind = "count" => TableTotal(t) = NRows(filtered_df)
           /\ (c.kind = "sum" /\ Len(kpi) >= 3) => TableTotal(t) = kpi[3].value.num

\* C2 witness: a finished pass with all eight tables, one of whose groups holds two
\* rows while another table splits the same rows into two groups.
C2_Witness ==
    /\ pc = "done"
    /\ Len(tables) = 8
    /\ \E j \in 1..Len(tables[8]) : tables[8][j].value = 2
    /\ Len(tables[1]) = 2

EmptySelection == job_cats = {} \/ industries = {}

\* C3: with an empty selection of job titles or industries the pass does not
\* raise: filtered_df is empty, Total Job Openings is 0, every grouped table is
\* empty, and each of the three mean KPIs is NaN (shown as "nan"), not 0.
C3_EmptySelection ==
    (pc \in PostSidebar /\ EmptySelection) =>
        /\ error = "none"
        /\ pc \in PostFilter => NRows(filtered_df) = 0
        /\ \A i \in 1..Len(kpi) :
              IF KpiSpecs[i].kind = "mean"
              THEN kpi[i].value.nan /\ kpi[i].shown.text = "nan"
                   /\ kpi[i].value # Ratio(0, 1)
              ELSE kpi[i].value = Ratio(0, 1) /\ kpi[i].shown = FormatInt(0)
        /\ \A i \in 1..Len(tables) : tables[i] = <<>>
        /\ pc \in {"salary", "ai", "market", "growth", "detail", "done"} => Len(kpi) = 4
        /\ pc = "done" => Len(tables) = 8

\* C3 witness: a pass that ran to its end with no job title selected.
C3_Witness ==
    /\ pc = "done"
    /\ job_cats = {}
    /\ Len(kpi) = 4
    /\ Len(tables) = 8

AtDefaults ==
    /\ year_range = DefaultYears
    /\ job_cats = Unique(df, "Job_Title")
    /\ industries = Unique(df, "Industry")

\* C4: with the filters at their defaults (full year range, every job title,
\* every industry) filtered_df equals df: same rows, same labels, same order.
C4_DefaultsKeepAll ==
    (pc \in PostFilter /\ AtDefaults) =>
        /\ filtered_df.index = df.index
        /\ filtered_df.data = df.data
        /\ filtered_df.columns = df.columns

\* C4 witness: a finished first pass over two equal rows, no widget touched.
C4_Witness ==
    /\ pc = "done"
    /\ session = NoWidgets
    /\ AtDefaults
    /\ NRows(df) = 2
    /\ df.data[1] = df.data[2]

\* What the pass's widget calls return: the values the pass started with.
Started ==
    [year |-> WidgetValue(session.year, DefaultYears),
     jobs |-> WidgetValue(session.jobs, Unique(df, "Job_Title")),
     inds |-> WidgetValue(session.inds, Unique(df, "Industry")),
     raw |-> WidgetValue(session.raw, FALSE)]

\* Every output of the running pass is derived from one filtered_df, itself the
\* filter of df under the values the pass started with.
OneSnapshot ==
    /\ pc \in PostSidebar =>
          /\ year_range = Started.year
          /\ job_cats = Started.jobs
          /\ industries = Started.inds
    /\ pc \in PostFilter =>
          filtered_df = Take(df, FilterMask(df, Started.year, Started.jobs, Started.inds))
    /\ \A i \in 1..Len(kpi) : kpi[i] = Metric(filtered_df, KpiSpecs[i])
    /\ \A i \in 1..Len(tables) : tables[i] = Table(filtered_df, ChartSpecs[i])
    /\ \A i \in 1..Len(raw_view) : raw_view[i] = filtered_df /\ Started.raw
    /\ pc = "done" => Len(kpi) = 4 /\ Len(tables) = 8 /\ (Started.raw => raw_view # <<>>)

\* The values a pass works with change only when a pass starts or at its sidebar
\* step: a change the user makes while a pass runs waits for the next pass.
NoMidPassChange ==
    /\ session' # session => pc \in {"idle", "done", "failed"}
    /\ <<year_range, job_cats, industries>>' # <<year_range, job_cats, industries>>
          => pc \in {"idle", "done", "failed", "sidebar"}
    /\ (pc \in PostFilter /\ pc # "done") => filtered_df' = filtered_df

Wider ==
    {<<yr, job_cats, industries>> :
        yr \in ((DefaultYears[1] - 1)..year_range[1])
                  \X (year_range[2]..(DefaultYears[2] + 1))}
    \cup {<<year_range, job_cats \cup {v}, industries>> : v \in Unique(df, "Job_Title")}
    \cup {<<year_range, job_cats, industries \cup {v}>> : v \in Unique(df, "Industry")}

\* C6: lowering year_min, raising year_max, or adding a job title or an industry
\* to the selection, the other two dimensions unchanged, filters df to a superset
\* of filtered_df, so the number of filtered rows does not decrease.
C6_Monotone ==
    pc \in PostFilter =>
        \A w \in Wider :
            LET wide == Take(df, FilterMask(df, w[1], w[2], w[3]))
            IN /\ Labels(filtered_df) \subseteq Labels(wide)
               /\ NRows(filtered_df) <= NRows(wide)

\* C6 witness: a filtered pass that left a row out which a wider job selection
\* brings back.
C6_Witness ==
    /\ pc = "done"
    /\ NRows(filtered_df) < NRows(df)
    /\ \E v \in Unique(df, "Job_Title") :
          /\ v \notin job_cats
          /\ NRows(Take(df, FilterMask(df, year_range, job_cats \cup {v}, industries)))
                > NRows(filtered_df)

Widgets == {"slider", "jobs", "industries", "checkbox"}
Outputs == Widgets \cup {"metric", "chart", "table"}

\* C8: a source file that lacks a required column makes load_data() fail: nothing
\* is cached for it and the pass puts no filter widget, KPI or chart on the page.
C8_MissingColumnAbortsLoad ==
    file.columns # Required =>
        /\ cache = <<>>
        /\ \A i \in 1..Len(screen) : screen[i] \notin Outputs

\* C9: pd.read_csv runs at most once in the process: a pass that has loaded found
\* exactly one read done, and its df is the frame the first completed pass worked
\* on, whatever has happened to the file since.
C9_ReadOnce ==
    /\ reads <= 1
    /\ (cache = <<>>) <=> (reads = 0)
    /\ Loaded => reads = 1
    /\ (Loaded /\ history # <<>>) => df.data = history[1].dataset.data

\* C9 witness: a second pass has loaded after the file on disk changed, with one
\* read done in all.
C9_Witness ==
    /\ passes >= 2
    /\ pc = "filter"
    /\ edits >= 1
    /\ history # <<>>
    /\ reads = 1
    /\ read_csv(file) # df

\* C10: from load to the end of the pass, through filter, KPIs, grouped tables and
\* raw view, df holds the rows, values and order the cache holds, and the cache
\* holds what the first completed pass of the session was given.
C10_DatasetUnchanged ==
    /\ Loaded => cache # <<>> /\ df = cache[1]
    /\ (history # <<>>) => (cache # <<>> /\ cache[1] = history[1].dataset)

\* C10 witness: a finished pass whose filter left rows out of a two-row df, all
\* eight tables charted.
C10_Witness ==
    /\ pc = "done"
    /\ NRows(df) = 2
    /\ NRows(filtered_df) < 2
    /\ Len(tables) = 8

====
